---- MODULE Spec2Model ----
(***************************************************************************)
(* Model of optimize_images_for_upload.py: the three per-file image        *)
(* operations (compress_image, convert_to_webp, compress_image_tinyfy),    *)
(* the three directory passes that drive them, and the part of the file    *)
(* system they read and write.                                             *)
(*                                                                         *)
(* A file name is a sequence of one-character strings, a path is a record  *)
(* [dir, name] (os.path.join), and the file system is a function from the  *)
(* paths that exist to their entries: a regular file with its content, a   *)
(* directory, or a symbolic link with its target.  File content is a       *)
(* sequence of chunks; an encoded image is << <<format, pixels>>, "EOI" >>. *)
(* Library calls (PIL, tinify, open) are modelled by the outcomes they can *)
(* have: they return, or raise one of their exception classes, and a save  *)
(* to a path opens the path for writing (which truncates it) before the    *)
(* encoder writes the chunks.  The quality and exif arguments only change  *)
(* the bytes the encoder produces, which the pixel token stands for.       *)
(* The caller makes one call, of a per-file operation or of a pass, on any *)
(* initial directory, and may run the convert pass a second time.          *)
(***************************************************************************)
EXTENDS Integers, Sequences, FiniteSets, TLC

\* ------------------------------------------------------------------ bounds
\* Largest number of entries the directory holds initially.
MaxFiles == 2

\* ------------------------------------------------------------ characters
UpperCase == <<"A","B","C","D","E","F","G","H","I","J","K","L","M",
               "N","O","P","Q","R","S","T","U","V","W","X","Y","Z">>
LowerCase == <<"a","b","c","d","e","f","g","h","i","j","k","l","m",
               "n","o","p","q","r","s","t","u","v","w","x","y","z">>

\* str.lower() on one character.
LowerChar(c) ==
    IF \E i \in 1..Len(UpperCase) : UpperCase[i] = c
    THEN LowerCase[CHOOSE i \in 1..Len(UpperCase) : UpperCase[i] = c]
    ELSE c

\* str.lower()
lower(s) == [i \in 1..Len(s) |-> LowerChar(s[i])]

\* str.endswith(suffix)
endswith(s, suffix) ==
    /\ Len(suffix) <= Len(s)
    /\ SubSeq(s, Len(s) - Len(suffix) + 1, Len(s)) = suffix

valid_extensions ==
    << <<".","j","p","g">>, <<".","j","p","e","g">>, <<".","p","n","g">>,
       <<".","g","i","f">>, <<".","b","m","p">>, <<".","w","e","b","p">> >>

\* is_image_file comparing the name as it is, without lower().
is_image_file_cased(filename) ==
    \E i \in 1..Len(valid_extensions) :
        endswith(filename, valid_extensions[i])

\* is_image_file(filename)
is_image_file(filename) ==
    \E i \in 1..Len(valid_extensions) :
        endswith(lower(filename), valid_extensions[i])

\* Index of the last "." of a name, 0 when there is none (str.rfind + 1).
rfindDot(s) ==
    IF \E i \in 1..Len(s) : s[i] = "."
    THEN CHOOSE i \in 1..Len(s) :
            s[i] = "." /\ \A j \in (i+1)..Len(s) : s[j] # "."
    ELSE 0

\* os.path.splitext(name)[0]: the extension starts at the last dot, unless
\* only dots precede it (leading dots are part of the root).
splitext_root(s) ==
    LET d == rfindDot(s) IN
    IF d > 0 /\ \E k \in 1..(d-1) : s[k] # "."
    THEN SubSeq(s, 1, d - 1)
    ELSE s

\* ------------------------------------------------------------------ paths
\* directory_path of the passes, and a directory elsewhere.
path_to_images == "assets"
Elsewhere == "elsewhere"

\* os.path.join(directory_path, filename)
join(d, filename) == [dir |-> d, name |-> filename]

NoPath == [dir |-> "", name |-> <<>>]

\* image_path + '.webp': the extension of the source is kept.
WebpPathOf_kept(p) ==
    [dir |-> p.dir, name |-> p.name \o <<".","w","e","b","p">>]

\* os.path.splitext(image_path)[0] + '.webp'
WebpPathOf(p) ==
    [dir |-> p.dir, name |-> splitext_root(p.name) \o <<".","w","e","b","p">>]

\* ------------------------------------------------------------ file system
FileEntry(data) == [type |-> "file", data |-> data, target |-> NoPath]
DirEntry == [type |-> "dir", data |-> <<>>, target |-> NoPath]
LinkEntry(t) == [type |-> "link", data |-> <<>>, target |-> t]

\* The path a system call acts on: a symbolic link is followed to its
\* target (targets are never links themselves, see TypeOK).
resolve(F, p) ==
    IF p \in DOMAIN F /\ F[p].type = "link" THEN F[p].target ELSE p

\* os.path.exists(p): follows symbolic links, False for a dangling link.
exists(F, p) == resolve(F, p) \in DOMAIN F

\* A test for a regular file that does not follow symbolic links.
isfile_nofollow(F, p) == p \in DOMAIN F /\ F[p].type = "file"

\* os.path.isfile(p): follows symbolic links.
isfile(F, p) == exists(F, p) /\ F[resolve(F, p)].type = "file"

\* os.path.getsize(p)
getsize(F, p) == Len(F[resolve(F, p)].data)

\* The names os.listdir(d) returns, as a set.
listdir(F, d) == {p.name : p \in {q \in DOMAIN F : q.dir = d}}

\* The orders os.listdir may return the names of S in.
Orders(S) ==
    {s \in [1..Cardinality(S) -> S] :
        \A i, j \in 1..Cardinality(S) : i # j => s[i] # s[j]}

\* The content read through p.
ReadData(F, p) == F[resolve(F, p)].data

\* open(p, 'wb') / open(p, 'w+b') that succeeds: the file p resolves to is
\* created if missing and truncated to zero length.
OpenForWrite(F, p) ==
    LET t == resolve(F, p) IN
    [q \in DOMAIN F \cup {t} |-> IF q = t THEN FileEntry(<<>>) ELSE F[q]]

\* write() of one more chunk to the file opened through p.
WriteChunk(F, p, c) ==
    LET t == resolve(F, p) IN
    [F EXCEPT ![t] = FileEntry(Append(F[t].data, c))]

\* os.remove(p): removes the entry p itself (a link, not its target).
Remove(F, p) == [q \in DOMAIN F \ {p} |-> F[q]]

\* ----------------------------------------------------------------- images
Formats == {"JPEG", "WEBP"}

\* The bytes an encoder writes for an image: the image data, then the
\* end-of-image marker.
Encoded(fmt, pixels) == << <<fmt, pixels>>, "EOI" >>

\* Image.open identifies the content as an image.
Decodable(data) ==
    Len(data) = 2 /\ data[1][1] \in Formats /\ data[2] = "EOI"

\* img.format and the pixels of a decodable file.
FormatOf(data) == data[1][1]
PixelsOf(data) == data[1][2]

OriginalImage == Encoded("JPEG", "raw")
Junk == <<"junk", "junk", "junk">>

\* ------------------------------------------------------------------ state
VARIABLES
    fs,             \* the file system
    pc,             \* the statement the program is at
    pass,           \* the directory pass running, "none" for a direct call
    resize,         \* the resize argument of the call: TRUE for a size
    listing,        \* the list os.listdir returned to the running pass
    idx,            \* the position of the pass in listing
    op,             \* the per-file operation running or last run
    image_path,     \* argument of the running per-file operation
    original_size,  \* compress_image: local
    img,            \* the object bound to img: "orig" or "resized"
    img_format,     \* compress_image: local
    webp_path,      \* convert_to_webp: local
    source,         \* compress_image_tinyfy: format of the uploaded image
    created,        \* Image.save: the path did not exist before the save
    wbuf,           \* the chunks the running write is writing
    handles,        \* the paths with an open decode handle
    log,            \* the last record the running operation logged
    raised,         \* the exception that left the last call, or "none"
    retval,         \* the value the last per-file operation returned
    calls,          \* number of calls made by the caller
    errors,         \* error records logged during the running call
    fs1,            \* the file system when the first of two passes listed
    errors1,        \* the error records of the first of two passes
    pre,            \* the file system when the last operation was invoked
    fs0,            \* the file system when the running pass listed
    invoked,        \* the paths the running pass invoked its operation on
    remote          \* remote requests made by the last operation

frame == <<original_size, img, img_format, webp_path, source, created, wbuf>>
call == <<pass, resize, listing, idx, calls, fs0, invoked, fs1, errors1, op>>
first == <<fs1, errors1>>
vars == <<fs, pc, pass, resize, listing, idx, op, image_path, original_size, img,
          img_format, webp_path, source, created, wbuf, handles, log, raised, retval,
          calls, errors, fs1, errors1, pre, fs0, invoked, remote>>

\* ------------------------------------------------------------------- Init
Name_a_jpg == <<"a",".","j","p","g">>
Name_b_PNG == <<"b",".","P","N","G">>
Name_a_webp == <<"a",".","w","e","b","p">>
Name_c_txt == <<"c",".","t","x","t">>

DirNames == {Name_a_jpg, Name_b_PNG, Name_a_webp, Name_c_txt}
DirPaths == {join(path_to_images, n) : n \in DirNames}
OutPath == join(Elsewhere, <<"o",".","j","p","g">>)

\* What the symbolic links of the directory point at initially: a file
\* elsewhere, and two paths of the directory.
LinkTargets ==
    {OutPath, join(path_to_images, Name_a_webp),
     join(path_to_images, Name_b_PNG)}

\* What a directory entry can be initially.
InitEntries ==
    {FileEntry(OriginalImage), FileEntry(Junk), DirEntry}
        \cup {LinkEntry(t) : t \in LinkTargets}

\* Links point at something that is not a link, and not at themselves.
LinksOK(F) ==
    \A p \in DOMAIN F :
        F[p].type = "link" =>
            /\ F[p].target # p
            /\ F[p].target \in DOMAIN F => F[F[p].target].type # "link"

InitLocals ==
    /\ pc = "idle"
    /\ pass = "none"
    /\ resize = FALSE
    /\ listing = <<>>
    /\ idx = 1
    /\ op = "none"
    /\ image_path = NoPath
    /\ original_size = 0
    /\ img = "none"
    /\ img_format = "none"
    /\ webp_path = NoPath
    /\ source = "none"
    /\ created = FALSE
    /\ wbuf = <<>>
    /\ handles = {}
    /\ log = "none"
    /\ raised = "none"
    /\ retval = NoPath
    /\ calls = 0
    /\ errors = 0
    /\ fs1 = fs
    /\ errors1 = 0
    /\ invoked = <<>>
    /\ remote = 0

Init ==
    /\ \E S \in SUBSET DirPaths :
         /\ Cardinality(S) <= MaxFiles
         /\ \E F \in [S -> InitEntries] :
              /\ LinksOK(F)
              /\ fs = [p \in S \cup {OutPath} |->
                          IF p \in S THEN F[p] ELSE FileEntry(OriginalImage)]
    /\ pre = fs
    /\ fs0 = fs
    /\ InitLocals

\* File names for the selection test: stems, with and without a dot before
\* the extension, extensions on and off the list, in three letter cases.
upper(s) ==
    [i \in 1..Len(s) |->
        IF \E k \in 1..Len(LowerCase) : LowerCase[k] = s[i]
        THEN UpperCase[CHOOSE k \in 1..Len(LowerCase) : LowerCase[k] = s[i]]
        ELSE s[i]]

capitalize(s) == [i \in 1..Len(s) |-> IF i = 1 THEN upper(s)[1] ELSE s[i]]

TestStems == {<<>>, <<"a">>, <<"a",".","b">>}
TestExts ==
    {<<"j","p","g">>, <<"j","p","e","g">>, <<"p","n","g">>, <<"g","i","f">>,
     <<"b","m","p">>, <<"w","e","b","p">>, <<"t","x","t">>,
     <<"j","p","g","x">>, <<"j","p">>, <<"t","i","f","f">>}
TestNames ==
    {st \o sep \o e : st \in TestStems, sep \in {<<>>, <<".">>},
        e \in UNION {{x, upper(x), capitalize(x)} : x \in TestExts}}

\* A directory with one entry of any of these names.
InitSel ==
    /\ \E n \in TestNames :
       \E e \in {FileEntry(OriginalImage), DirEntry, LinkEntry(OutPath),
                 LinkEntry(join(path_to_images, Name_c_txt))} :
          fs = [p \in {join(path_to_images, n), OutPath} |->
                   IF p = OutPath THEN FileEntry(OriginalImage) ELSE e]
    /\ pre = fs
    /\ fs0 = fs
    /\ InitLocals

\* ------------------------------------------------------- calls and returns
\* The locals of a per-file operation are gone when it is left.
DropFrame ==
    /\ original_size' = 0
    /\ img' = "none"
    /\ img_format' = "none"
    /\ webp_path' = NoPath
    /\ source' = "none"
    /\ created' = FALSE
    /\ wbuf' = <<>>

\* The per-file operation returns rv to its caller, having logged lg.
IsError(lg) ==
    lg \in {"error_not_found", "error_compressing", "error_converting",
            "error_tinify"}

Return(lg, rv) ==
    /\ pc' = IF pass = "none" THEN "idle" ELSE "loop"
    /\ log' = lg
    /\ errors' = IF IsError(lg) THEN errors + 1 ELSE errors
    /\ retval' = rv
    /\ DropFrame

\* The per-file operation is left by an exception no handler catches: it
\* passes through the driver loop, which has no handler, to the caller.
Raise(exc) ==
    /\ pc' = "idle"
    /\ raised' = exc
    /\ DropFrame

\* Leaving the with block closes what img is bound to: nothing, once img
\* is the resized copy.
WithExit_rebound(h, p, bound) == IF bound = "resized" THEN h ELSE h \ {p}

\* Leaving the with block: the context manager Image.open returned is
\* closed, whatever img is bound to by then.
WithExit(h, p, bound) == h \ {p}

\* The paths a caller passes to a per-file operation.
CallerPaths == DirPaths \cup {OutPath}

\* The first statement of a per-file operation.
Entry(f) ==
    CASE f = "compress_image" -> "ci_check"
      [] f = "convert_to_webp" -> "cw_check"
      [] f = "compress_image_tinyfy" -> "ct_check"

\* A caller calls a per-file operation directly.
CallOp(f, p, r) ==
    /\ pc = "idle"
    /\ calls = 0
    /\ calls' = 1
    /\ errors' = 0
    /\ pass' = "none"
    /\ resize' = r
    /\ listing' = <<>>
    /\ idx' = 1
    /\ invoked' = <<>>
    /\ fs0' = fs
    /\ op' = f
    /\ image_path' = p
    /\ pre' = fs
    /\ log' = "none"
    /\ raised' = "none"
    /\ retval' = NoPath
    /\ remote' = 0
    /\ pc' = Entry(f)
    /\ UNCHANGED <<fs, frame, handles, first>>

call_compress_image ==
    \E p \in CallerPaths, r \in BOOLEAN : CallOp("compress_image", p, r)

call_convert_to_webp ==
    \E p \in CallerPaths : CallOp("convert_to_webp", p, FALSE)

call_compress_image_tinyfy ==
    \E p \in CallerPaths : CallOp("compress_image_tinyfy", p, FALSE)

\* A directory pass is called: os.listdir(directory_path) is evaluated once.
StartPass(kind, r) ==
    /\ pc = "idle"
    /\ calls' = calls + 1
    /\ errors' = 0
    /\ pass' = kind
    /\ resize' = r
    /\ listing' \in Orders(listdir(fs, path_to_images))
    /\ idx' = 1
    /\ invoked' = <<>>
    /\ fs0' = fs
    /\ raised' = "none"
    /\ pc' = "loop"
    /\ UNCHANGED <<fs, frame, handles, op, image_path, pre, log, retval,
                   remote>>

\* One iteration of the for loop of a pass, up to the call of the per-file
\* operation; the pass returns when the list is exhausted.
LoopStep(kind, f) ==
    /\ pc = "loop"
    /\ pass = kind
    /\ IF idx > Len(listing)
       THEN /\ pc' = "idle"
            /\ UNCHANGED <<idx, invoked, op, image_path, pre, log, retval,
                           remote>>
       ELSE LET filename == listing[idx]
                file_path == join(path_to_images, filename)
            IN  /\ idx' = idx + 1
                /\ IF isfile(fs, file_path) /\ is_image_file(filename)
                   THEN /\ pc' = Entry(f)
                        /\ op' = f
                        /\ image_path' = file_path
                        /\ invoked' = Append(invoked, file_path)
                        /\ pre' = fs
                        /\ log' = "none"
                        /\ retval' = NoPath
                        /\ remote' = 0
                   ELSE /\ pc' = "loop"
                        /\ UNCHANGED <<invoked, op, image_path, pre, log,
                                       retval, remote>>
    /\ UNCHANGED <<fs, frame, handles, pass, resize, listing, calls, fs0,
                   raised, errors, first>>

compress_images_in_directory ==
    \/ calls = 0 /\ UNCHANGED first /\ \E r \in BOOLEAN : StartPass("compress", r)
    \/ LoopStep("compress", "compress_image")

convert_directory_to_webp ==
    \/ calls = 0 /\ UNCHANGED first /\ StartPass("convert", FALSE)
    \/ LoopStep("convert", "convert_to_webp")

compress_images_in_directory_tinyfy ==
    \/ calls = 0 /\ UNCHANGED first /\ StartPass("tinyfy", FALSE)
    \/ LoopStep("tinyfy", "compress_image_tinyfy")

\* The caller runs the convert pass a second time on the same directory,
\* after a first one that returned without logging an error.
convert_directory_to_webp_again ==
    /\ calls = 1
    /\ pass = "convert"
    /\ raised = "none"
    /\ errors = 0
    /\ fs1' = fs0
    /\ errors1' = errors
    /\ StartPass("convert", FALSE)

\* ---------------------------------------------------------- compress_image
\* Lines 25-29: the existence check and original_size.
compress_image_check ==
    /\ pc = "ci_check"
    /\ IF ~exists(fs, image_path)
       THEN /\ Return("error_not_found", NoPath)
       ELSE /\ original_size' = getsize(fs, image_path)
            /\ pc' = "ci_open"
            /\ UNCHANGED <<log, errors, retval, img, img_format, webp_path, source,
                           created, wbuf>>
    /\ UNCHANGED <<fs, call, image_path, handles, raised, pre, remote>>

\* Lines 31-33: Image.open either raises (a directory, content that is no
\* image, an I/O error), which the handler of line 43 logs, or returns the
\* image with its decode handle open.
compress_image_open ==
    /\ pc = "ci_open"
    /\ \/ /\ isfile(fs, image_path)
          /\ Decodable(ReadData(fs, image_path))
          /\ handles' = handles \cup {image_path}
          /\ img' = "orig"
          /\ img_format' = FormatOf(ReadData(fs, image_path))
          /\ pc' = IF resize THEN "ci_resize" ELSE "ci_save"
          /\ UNCHANGED <<log, errors, retval, original_size, webp_path, source,
                         created, wbuf>>
       \/ /\ Return("error_compressing", NoPath)
          /\ UNCHANGED handles
    /\ UNCHANGED <<fs, call, image_path, raised, pre, remote>>

\* Lines 35-36: img is rebound to the resized copy, or resize raises.
compress_image_resize ==
    /\ pc = "ci_resize"
    /\ \/ /\ img' = "resized"
          /\ pc' = "ci_save"
          /\ UNCHANGED <<log, errors, retval, original_size, img_format, webp_path,
                         source, created, wbuf, handles>>
       \/ /\ handles' = WithExit(handles, image_path, img)
          /\ Return("error_compressing", NoPath)
    /\ UNCHANGED <<fs, call, image_path, raised, pre, remote>>

\* Line 38, first half: img.save raises before it opens image_path, or
\* opens it for writing, which truncates the file.
compress_image_save ==
    /\ pc = "ci_save"
    /\ \/ /\ handles' = WithExit(handles, image_path, img)
          /\ Return("error_compressing", NoPath)
          /\ UNCHANGED fs
       \/ /\ isfile(fs, image_path)
          /\ fs' = OpenForWrite(fs, image_path)
          /\ wbuf' = Encoded(img_format,
                             IF img = "resized" THEN "resized" ELSE "lossy")
          /\ pc' = "ci_write"
          /\ UNCHANGED <<log, errors, retval, original_size, img, img_format,
                         webp_path, source, created, handles>>
    /\ UNCHANGED <<call, image_path, raised, pre, remote>>

\* Line 38, second half: the encoder writes the next chunk, or raises and
\* leaves what it has written.
compress_image_write ==
    /\ pc = "ci_write"
    /\ \/ LET n == getsize(fs, image_path) IN
          /\ fs' = WriteChunk(fs, image_path, wbuf[n + 1])
          /\ pc' = IF n + 1 = Len(wbuf) THEN "ci_done" ELSE "ci_write"
          /\ UNCHANGED <<log, errors, retval, frame, handles>>
       \/ /\ handles' = WithExit(handles, image_path, img)
          /\ Return("error_compressing", NoPath)
          /\ UNCHANGED fs
    /\ UNCHANGED <<call, image_path, raised, pre, remote>>

\* Lines 40-42: the reduction is computed and logged; the with block ends.
compress_image_done ==
    /\ pc = "ci_done"
    /\ handles' = WithExit(handles, image_path, img)
    /\ IF original_size = 0
       THEN Return("error_compressing", NoPath)
       ELSE Return("info_compressed", NoPath)
    /\ UNCHANGED <<fs, call, image_path, raised, pre, remote>>

\* --------------------------------------------------------- convert_to_webp
\* Lines 84-86.
convert_to_webp_check ==
    /\ pc = "cw_check"
    /\ IF ~exists(fs, image_path)
       THEN Return("error_not_found", NoPath)
       ELSE /\ pc' = "cw_open"
            /\ UNCHANGED <<log, errors, retval, frame>>
    /\ UNCHANGED <<fs, call, image_path, handles, raised, pre, remote>>

\* Lines 89-90: Image.open, then the output path is derived.
convert_to_webp_open ==
    /\ pc = "cw_open"
    /\ \/ /\ isfile(fs, image_path)
          /\ Decodable(ReadData(fs, image_path))
          /\ handles' = handles \cup {image_path}
          /\ img' = "orig"
          /\ webp_path' = WebpPathOf(image_path)
          /\ pc' = "cw_save"
          /\ UNCHANGED <<log, errors, retval, original_size, img_format, source,
                         created, wbuf>>
       \/ /\ Return("error_converting", NoPath)
          /\ UNCHANGED handles
    /\ UNCHANGED <<fs, call, image_path, raised, pre, remote>>

\* Line 91, first half: img.save loads the pixels, then raises before it
\* opens webp_path (or the open fails: a directory, an I/O error), or
\* creates or truncates the file webp_path resolves to.
convert_to_webp_save ==
    /\ pc = "cw_save"
    /\ \/ /\ handles' = WithExit(handles, image_path, img)
          /\ Return("error_converting", NoPath)
          /\ UNCHANGED fs
       \/ /\ exists(fs, webp_path) => isfile(fs, webp_path)
          /\ created' = ~exists(fs, webp_path)
          /\ wbuf' = Encoded("WEBP", PixelsOf(ReadData(fs, image_path)))
          /\ fs' = OpenForWrite(fs, webp_path)
          /\ pc' = "cw_write"
          /\ UNCHANGED <<log, errors, retval, original_size, img, img_format,
                         webp_path, source, handles>>
    /\ UNCHANGED <<call, image_path, raised, pre, remote>>

\* Line 91, second half: the encoder writes the next chunk, or raises; the
\* library then removes the path if the save created it (newer releases)
\* or leaves it as written (older releases).
convert_to_webp_write ==
    /\ pc = "cw_write"
    /\ \/ LET n == getsize(fs, webp_path) IN
          /\ fs' = WriteChunk(fs, webp_path, wbuf[n + 1])
          /\ pc' = IF n + 1 = Len(wbuf) THEN "cw_done" ELSE "cw_write"
          /\ UNCHANGED <<log, errors, retval, frame, handles>>
       \/ /\ handles' = WithExit(handles, image_path, img)
          /\ Return("error_converting", NoPath)
          /\ \/ UNCHANGED fs
             \/ created /\ fs' = Remove(fs, webp_path)
    /\ UNCHANGED <<call, image_path, raised, pre, remote>>

\* Lines 92-93.
convert_to_webp_done ==
    /\ pc = "cw_done"
    /\ handles' = WithExit(handles, image_path, img)
    /\ Return("info_converted", webp_path)
    /\ UNCHANGED <<fs, call, image_path, raised, pre, remote>>

\* --------------------------------------------------- compress_image_tinyfy
\* compress_image_tinyfy without the existence check of lines 116-118.
compress_image_tinyfy_nocheck ==
    /\ pc = "ct_check"
    /\ pc' = "ct_from_file"
    /\ UNCHANGED <<log, errors, retval, frame>>
    /\ UNCHANGED <<fs, call, image_path, handles, raised, pre, remote>>

\* Lines 116-118.
compress_image_tinyfy_check ==
    /\ pc = "ct_check"
    /\ IF ~exists(fs, image_path)
       THEN Return("error_not_found", NoPath)
       ELSE /\ pc' = "ct_from_file"
            /\ UNCHANGED <<log, errors, retval, frame>>
    /\ UNCHANGED <<fs, call, image_path, handles, raised, pre, remote>>

\* Line 121: tinify.from_file reads the file (open(path, 'rb'): an OSError
\* is no tinify.Error and leaves the function) and uploads it; the service
\* answers or the client raises a tinify.Error, which line 124 catches.
compress_image_tinyfy_from_file ==
    /\ pc = "ct_from_file"
    /\ \/ /\ Raise("OSError")
          /\ UNCHANGED <<log, errors, retval, remote>>
       \/ /\ isfile(fs, image_path)
          /\ remote' = remote + 1
          /\ \/ /\ Return("error_tinify", NoPath)
                /\ UNCHANGED raised
             \/ /\ Decodable(ReadData(fs, image_path))
                /\ source' = FormatOf(ReadData(fs, image_path))
                /\ pc' = "ct_to_file"
                /\ UNCHANGED <<log, errors, retval, raised, original_size, img,
                               img_format, webp_path, created, wbuf>>
    /\ UNCHANGED <<fs, call, image_path, handles, pre>>

\* to_file opening image_path for writing before it fetches the bytes.
compress_image_tinyfy_to_file_early ==
    /\ pc = "ct_to_file"
    /\ remote' = remote + 1
    /\ \/ /\ Return("error_tinify", NoPath)
          /\ fs' = OpenForWrite(fs, image_path)
          /\ UNCHANGED raised
       \/ /\ Raise("OSError")
          /\ UNCHANGED <<fs, log, errors, retval>>
       \/ /\ fs' = OpenForWrite(fs, image_path)
          /\ wbuf' = Encoded(source, "tiny")
          /\ pc' = "ct_write"
          /\ UNCHANGED <<log, errors, retval, raised, original_size, img,
                         img_format, webp_path, source, created>>
    /\ UNCHANGED <<call, image_path, handles, pre>>

\* Line 122, first half: source.to_file fetches the optimized bytes (a
\* tinify.Error is caught) and only then opens image_path with 'wb' (an
\* OSError leaves the function), which truncates the file.
compress_image_tinyfy_to_file ==
    /\ pc = "ct_to_file"
    /\ remote' = remote + 1
    /\ \/ /\ Return("error_tinify", NoPath)
          /\ UNCHANGED <<fs, raised>>
       \/ /\ Raise("OSError")
          /\ UNCHANGED <<fs, log, errors, retval>>
       \/ /\ fs' = OpenForWrite(fs, image_path)
          /\ wbuf' = Encoded(source, "tiny")
          /\ pc' = "ct_write"
          /\ UNCHANGED <<log, errors, retval, raised, original_size, img, img_format,
                         webp_path, source, created>>
    /\ UNCHANGED <<call, image_path, handles, pre>>

\* Line 122, second half: the bytes are written, or the write fails with an
\* OSError that leaves the function.
compress_image_tinyfy_write ==
    /\ pc = "ct_write"
    /\ \/ LET n == getsize(fs, image_path) IN
          /\ fs' = WriteChunk(fs, image_path, wbuf[n + 1])
          /\ pc' = IF n + 1 = Len(wbuf) THEN "ct_done" ELSE "ct_write"
          /\ UNCHANGED <<log, errors, retval, raised, frame>>
       \/ /\ Raise("OSError")
          /\ UNCHANGED <<fs, log, errors, retval>>
    /\ UNCHANGED <<call, image_path, handles, pre, remote>>

\* Line 123.
compress_image_tinyfy_done ==
    /\ pc = "ct_done"
    /\ Return("info_tinyfy", NoPath)
    /\ UNCHANGED <<fs, call, image_path, handles, raised, pre, remote>>

\* ------------------------------------------------------------------- Next
Next ==
    \/ call_compress_image
    \/ call_convert_to_webp
    \/ call_compress_image_tinyfy
    \/ compress_images_in_directory
    \/ convert_directory_to_webp
    \/ compress_images_in_directory_tinyfy
    \/ convert_directory_to_webp_again
    \/ compress_image_check
    \/ compress_image_open
    \/ compress_image_resize
    \/ compress_image_save
    \/ compress_image_write
    \/ compress_image_done
    \/ convert_to_webp_check
    \/ convert_to_webp_open
    \/ convert_to_webp_save
    \/ convert_to_webp_write
    \/ convert_to_webp_done
    \/ compress_image_tinyfy_check
    \/ compress_image_tinyfy_from_file
    \/ compress_image_tinyfy_to_file
    \/ compress_image_tinyfy_write
    \/ compress_image_tinyfy_done

Spec == Init /\ [][Next]_vars

\* The same program on the directories of the selection test.
SpecSel == InitSel /\ [][Next]_vars

TypeOK ==
    /\ LinksOK(fs)
    /\ pc \in {"idle", "loop", "ci_check", "ci_open", "ci_resize", "ci_save",
               "ci_write", "ci_done", "cw_check", "cw_open", "cw_save",
               "cw_write", "cw_done", "ct_check", "ct_from_file",
               "ct_to_file", "ct_write", "ct_done"}
    /\ pass \in {"none", "compress", "convert", "tinyfy"}
    /\ calls \in 0..2
    /\ idx \in 1..(Len(listing) + 1)

\* ============================================================ properties
\* The last per-file operation has returned to its caller.
Returned == op # "none" /\ pc \in {"idle", "loop"}

\* The elements of a sequence.
Range(q) == {q[i] : i \in 1..Len(q)}

\* The entries of the directory that are regular files (links followed)
\* with a name is_image_file accepts, in file system F.
Matching(F) ==
    {p \in DOMAIN F :
        p.dir = path_to_images /\ isfile(F, p) /\ is_image_file(p.name)}

\* The name ends in a dot followed by one of the six extensions, each
\* letter in either case.
SupportedExts ==
    {<<"j","p","g">>, <<"j","p","e","g">>, <<"p","n","g">>, <<"g","i","f">>,
     <<"b","m","p">>, <<"w","e","b","p">>}

HasSupportedExt(n) ==
    LET d == rfindDot(n) IN
    /\ d > 0
    /\ \E e \in SupportedExts :
         /\ Len(n) - d = Len(e)
         /\ \A i \in 1..Len(e) : n[d + i] \in {e[i], upper(e)[i]}

\* The directory entry the loop of the running pass is about to test.
AtEntry == pc = "loop" /\ idx <= Len(listing)
CurrentPath == join(path_to_images, listing[idx])

\* No entry of the directory is a symbolic link whose target is missing.
NoDangling(F) ==
    \A p \in DOMAIN F :
        (p.dir = path_to_images /\ F[p].type = "link")
            => F[p].target \in DOMAIN F

\* C1: after compress_image on an existing file, the file holds the complete
\* newly encoded image or its content before the call, and it holds the
\* content before the call whenever a failure was logged.
C1_NewOrUnchanged ==
    (Returned /\ op = "compress_image" /\ exists(pre, image_path)) =>
        LET t == resolve(pre, image_path) IN
        /\ \/ fs[t] = pre[t]
           \/ /\ fs[t].type = "file"
              /\ Decodable(fs[t].data)
              /\ PixelsOf(fs[t].data) \in {"lossy", "resized"}
        /\ log = "error_compressing" => fs[t] = pre[t]

\* C2: a directory pass is never left by an exception: when it is over, no
\* exception was raised and every entry of the listing has been visited.
C2_PassCompletes ==
    (pass # "none" /\ pc = "idle") =>
        (raised = "none" /\ idx = Len(listing) + 1)

\* C3: after convert_to_webp on a source with a recognized extension, the
\* source is as before the call and the output path is another path.
C3_SourceUntouched ==
    (Returned /\ op = "convert_to_webp" /\ exists(pre, image_path)
        /\ is_image_file(image_path.name)) =>
        LET t == resolve(pre, image_path) IN
        /\ t \in DOMAIN fs
        /\ fs[t] = pre[t]
        /\ retval # NoPath => retval # image_path

\* C4: when a pass is over, it has invoked the per-file operation exactly
\* once for each entry that was a matching file when the pass listed the
\* directory, and for nothing else.
C4_ExactlyN ==
    (pass # "none" /\ pc = "idle") =>
        /\ Len(invoked) = Cardinality(Matching(fs0))
        /\ Range(invoked) = Matching(fs0)

\* C5: an entry that is a regular file or a directory is selected (the
\* per-file operation is invoked on it) if and only if it is a regular file
\* whose name has one of the six extensions in any letter case.
C5_Selection ==
    [][(AtEntry /\ CurrentPath \in DOMAIN fs
            /\ fs[CurrentPath].type # "link") =>
        ((pc' # "loop") <=>
            (fs[CurrentPath].type = "file"
                /\ HasSupportedExt(listing[idx])))]_vars

C5_Witness ==
    /\ pass = "tinyfy"
    /\ pc = "ct_check"
    /\ image_path.name = <<"a",".","b",".","J","P","E","G">>
    /\ fs[image_path].type = "file"

\* C6 as stated: a pass never invokes the per-file operation on an entry
\* that is a symbolic link.
C6_LinksExcluded ==
    \A i \in 1..Len(invoked) : fs0[invoked[i]].type # "link"

\* C6 amended: an entry that is a symbolic link is selected if and only if
\* its name has one of the six extensions and its target exists and is a
\* regular file; a dangling link and a link to a directory are excluded.
C6_LinksFollowed ==
    [][(AtEntry /\ CurrentPath \in DOMAIN fs
            /\ fs[CurrentPath].type = "link") =>
        ((pc' # "loop") <=>
            /\ HasSupportedExt(listing[idx])
            /\ fs[CurrentPath].target \in DOMAIN fs
            /\ fs[fs[CurrentPath].target].type = "file")]_vars

\* A compress pass has overwritten the target of a link it selected.
C6_Witness ==
    /\ pass = "compress"
    /\ pc = "idle"
    /\ \E i \in 1..Len(invoked) :
         /\ fs0[invoked[i]].type = "link"
         /\ fs0[invoked[i]].target = OutPath
         /\ fs[OutPath].data = Encoded("JPEG", "lossy")
         /\ fs0[OutPath].data = OriginalImage

\* C7: when compress_image_tinyfy logged a service error, the file system
\* is as before the call and nothing was raised; and the file is written
\* only after both remote requests (upload, download) were made.
C7_ServiceErrorLeavesFile ==
    op = "compress_image_tinyfy" =>
        /\ (Returned /\ log = "error_tinify") =>
                (fs = pre /\ raised = "none")
        /\ fs # pre => remote = 2

\* The download of the optimized bytes failed.
C7_Witness ==
    /\ Returned
    /\ op = "compress_image_tinyfy"
    /\ log = "error_tinify"
    /\ remote = 2
    /\ isfile(pre, image_path)

\* C8: a per-file operation called on a path that does not exist logs
\* not-found and returns: it raises nothing, makes no remote request, opens
\* nothing and leaves the file system as it was.
C8_NotFound ==
    (op # "none" /\ ~exists(pre, image_path)) =>
        /\ fs = pre
        /\ remote = 0
        /\ raised = "none"
        /\ handles = {}
        /\ pc \in {"ci_check", "cw_check", "ct_check", "idle", "loop"}
        /\ Returned => (log = "error_not_found" /\ retval = NoPath)

\* compress_image_tinyfy has returned from a call on a dangling link.
C8_Witness ==
    /\ Returned
    /\ op = "compress_image_tinyfy"
    /\ image_path \in DOMAIN pre
    /\ ~exists(pre, image_path)
    /\ log = "error_not_found"

\* C9: at most one decode handle is open at any time, and none is open
\* between two per-file operations or when a per-file operation begins.
C9_OneHandle ==
    /\ Cardinality(handles) <= 1
    /\ pc \in {"idle", "loop", "ci_check", "cw_check", "ct_check"}
            => handles = {}

\* The second file of a resizing compress pass begins after the save of the
\* first, resized, file failed in the middle of the write.
C9_Witness ==
    /\ pass = "compress"
    /\ resize
    /\ pc = "ci_check"
    /\ Len(invoked) = 2
    /\ ReadData(fs0, invoked[1]) = OriginalImage
    /\ ReadData(fs, invoked[1]) = << <<"JPEG", "resized">> >>

\* The names a convert pass without errors leaves in the directory, and
\* what a second one finds.
FirstPassNames ==
    listdir(fs, path_to_images) =
        listdir(fs0, path_to_images)
            \cup {WebpPathOf(p).name : p \in Range(invoked)}

SecondPassNames ==
    /\ listdir(fs, path_to_images) = listdir(fs0, path_to_images)
    /\ \A p \in Range(invoked) : exists(fs0, WebpPathOf(p))

FirstPassOver ==
    pass = "convert" /\ calls = 1 /\ pc = "idle" /\ errors = 0

SecondPassOver ==
    calls = 2 /\ pc = "idle" /\ errors = 0 /\ errors1 = 0

\* C10 as stated: a convert pass in which every conversion succeeds leaves
\* the starting names plus stem.webp for each selected file, and a second
\* such pass changes no name, every output path existing already.
C10_Idempotent ==
    /\ FirstPassOver => FirstPassNames
    /\ SecondPassOver => SecondPassNames

\* C10 amended: the same, for a directory that holds no dangling symbolic
\* link when the first pass starts.
C10_IdempotentNoDangling ==
    /\ (FirstPassOver /\ NoDangling(fs0)) => FirstPassNames
    /\ (SecondPassOver /\ NoDangling(fs1)) => SecondPassNames

\* A second pass is over that selected the files of the first and the
\* .webp files the first created.
C10_Witness ==
    /\ SecondPassOver
    /\ NoDangling(fs1)
    /\ Len(invoked) = 4
    /\ Cardinality(listdir(fs1, path_to_images)) = 2
    /\ Cardinality(listdir(fs, path_to_images)) = 4

====
